---------------------------- MODULE Spec2Model ----------------------------
(***************************************************************************)
(* A model of the skunk agent (github.com/nilium/skunk): the metric        *)
(* algebra of ScalarMetric / RangeMetric, the Agent's runloop (ops, ticker,*)
(* retry timer, shutdown) and the delivery of payloads to the endpoint.    *)
(*                                                                         *)
(* float64 values are modelled by small integers, on which float64         *)
(* arithmetic (+, *, min, max) is exact.  time.Time is an integer clock;   *)
(* the zero time.Time is 0 and the clock starts at 1.                      *)
(***************************************************************************)
EXTENDS Integers, Sequences, FiniteSets, TLC

(***************************************************************************)
(* Bounds of the model.                                                    *)
(***************************************************************************)
\* Largest Count of a RangeMetric drawn as an input.
MaxCount == 3

\* The float64 values callers record.
Values == {1, 3}

\* Recordings (by Count) an agent may hold between two clears.
MaxRecordings == 3

\* Largest reading of the clock.
MaxTime == 2

\* The (name, GUID) pairs callers ask for: two names under one GUID and two
\* GUIDs under one name.
Pairs == {<<"svc", "GUID-A">>, <<"svc", "GUID-B">>, <<"cache", "GUID-A">>}

\* Two of them.
TwoPairs == {<<"svc", "GUID-A">>, <<"svc", "GUID-B">>}

\* One of them.
OnePair == {<<"cache", "GUID-A">>}

MetricNames == {"hits", "misses"}

\* Component names of 32 and of 33 characters.
Name32 == "abcdefghijklmnopqrstuvwxyz012345"

Name33 == "abcdefghijklmnopqrstuvwxyz0123456"

NamedPairs == {<<Name32, "GUID-A">>, <<Name33, "GUID-A">>}

\* API keys, versions and hosts NewWithRep is called with.
ApiKeys == {"", "key"}

Versions == {"", "1.0"}

Hosts == {"", "host"}

\* Per NewRelic, names must be <= 32 characters in length.
MaxNameLen == 32

\* HTTP status codes the endpoint answers with.
StatusCodes == {199, 200, 204, 299, 300, 400, 403, 404, 405, 413, 499,
                500, 503, 599, 600}

\* Response bodies: empty, a vendor error message.
Bodies == {"", "{error}"}

VARIABLES
    \* ---- metric algebra harness (SpecMetric) ----
    mx, my, mz,     \* three input metrics
    mv,             \* an input float64 value
    mres,           \* results of the calls made so far, by label
    mcall,          \* the Merge call in progress: its dynamic dispatch frame
    \* ---- the agent (Spec) ----
    state,          \* "NoAgent" (NewWithRep failed), "Dormant" (a.ops = nil),
                    \* "Active" (runloop), "Stopped", "Crashed" (the runtime
                    \* ended the process)
    components,     \* a.body.Components
    err,            \* a.err
    retryNeeded,    \* run's retryNeeded
    timer,          \* run's timer: "nil", "armed" or "idle"
    retryC,         \* timer.C: 0 when empty, else the time the timer fired
    tickC,          \* a.ticker.C: 0 when empty, else the time of the tick
    now,            \* the clock
    ev,             \* what the last step did, when it was a send attempt,
                    \* a Component or an Err call (history variable)
    hist,           \* per component and metric name: the values recorded
                    \* since the last clear (history variable)
    cfg,            \* what NewWithRep was called with
    LogMetrics,     \* a.LogMetrics, with a.Log other than ioutil.Discard
    readers,        \* the components whose Metrics map a logComponentMetrics
                    \* goroutine is reading
    closing,        \* Agent.Close: where its caller is, the error it holds
    lastFatal       \* the last send attempt of the runloop failed with an
                    \* error that is not errMustRetry (history variable)

metricVars == <<mx, my, mz, mv, mres, mcall>>

agentVars == <<state, components, err, retryNeeded, timer, retryC, tickC,
               now, ev, hist, cfg, LogMetrics, readers, closing, lastFatal>>

vars == <<metricVars, agentVars>>

(***************************************************************************)
(* math.Min, math.Max, math.Pow(f, 2)                                      *)
(***************************************************************************)
Min(a, b) == IF a <= b THEN a ELSE b

Max(a, b) == IF a >= b THEN a ELSE b

Pow2(f) == f * f

(***************************************************************************)
(* The two Metric variants.                                                *)
(***************************************************************************)
ScalarMetric(f) == [kind |-> "Scalar", v |-> f]

RangeMetric(total, count, min, max, square) ==
    [kind |-> "Range", Total |-> total, Count |-> count,
     Min |-> min, Max |-> max, Square |-> square]

\* func (s ScalarMetric) Add(value float64) Metric
ScalarMetric_Add(s, value) ==
    RangeMetric(s.v + value, 2, Min(value, s.v), Max(value, s.v),
                Pow2(s.v) + Pow2(value))

\* RangeMetric.Add adding the value, not its square, to Square.
RangeMetric_Add_Unsquared(r, value) ==
    RangeMetric(r.Total + value, r.Count + 1, Min(value, r.Min),
                Max(value, r.Max), r.Square + value)

\* func (r RangeMetric) Add(value float64) Metric
RangeMetric_Add(r, value) ==
    RangeMetric(r.Total + value, r.Count + 1, Min(value, r.Min),
                Max(value, r.Max), r.Square + Pow2(value))

\* Metric.Add through the interface: dispatch on the dynamic type.
Metric_Add(m, value) ==
    IF m.kind = "Scalar" THEN ScalarMetric_Add(m, value)
    ELSE RangeMetric_Add(m, value)

(***************************************************************************)
(* Merge.  A method body either returns a value ([ret |-> TRUE, val]) or   *)
(* ends in a call of Merge on another receiver ([ret |-> FALSE, recv,      *)
(* arg]); Merge follows those calls until one returns.                     *)
(***************************************************************************)
\* func (s ScalarMetric) Merge(value Metric) Metric
ScalarMetric_Merge(s, value) ==
    [ret  |-> FALSE,
     recv |-> value,
     arg  |-> RangeMetric(s.v, 1, s.v, s.v, Pow2(s.v))]

\* RangeMetric.Merge whose ScalarMetric case leaves Count as it is.
RangeMetric_Merge_ScalarUncounted(r, value) ==
    CASE value.kind = "Scalar" ->
            [ret |-> TRUE,
             val |-> RangeMetric(r.Total + value.v, r.Count,
                                 Min(r.Min, value.v), Max(r.Max, value.v),
                                 r.Square + Pow2(value.v))]
      [] value.kind = "Range" ->
            [ret |-> TRUE,
             val |-> RangeMetric(r.Total + value.Total, r.Count + value.Count,
                                 Min(r.Min, value.Min), Max(r.Max, value.Max),
                                 r.Square + value.Square)]
      [] OTHER ->
            [ret |-> FALSE, recv |-> value, arg |-> r]

\* RangeMetric.Merge whose RangeMetric case counts the other range as one
\* value.
RangeMetric_Merge_RangeAsOne(r, value) ==
    CASE value.kind = "Scalar" ->
            [ret |-> TRUE,
             val |-> RangeMetric(r.Total + value.v, r.Count + 1,
                                 Min(r.Min, value.v), Max(r.Max, value.v),
                                 r.Square + Pow2(value.v))]
      [] value.kind = "Range" ->
            [ret |-> TRUE,
             val |-> RangeMetric(r.Total + value.Total, r.Count + 1,
                                 Min(r.Min, value.Min), Max(r.Max, value.Max),
                                 r.Square + value.Square)]
      [] OTHER ->
            [ret |-> FALSE, recv |-> value, arg |-> r]

\* func (r RangeMetric) Merge(value Metric) Metric
RangeMetric_Merge(r, value) ==
    CASE value.kind = "Scalar" ->
            [ret |-> TRUE,
             val |-> RangeMetric(r.Total + value.v, r.Count + 1,
                                 Min(r.Min, value.v), Max(r.Max, value.v),
                                 r.Square + Pow2(value.v))]
      [] value.kind = "Range" ->
            [ret |-> TRUE,
             val |-> RangeMetric(r.Total + value.Total, r.Count + value.Count,
                                 Min(r.Min, value.Min), Max(r.Max, value.Max),
                                 r.Square + value.Square)]
      [] OTHER ->
            \* Defer to the other metric to attempt the merge.
            [ret |-> FALSE, recv |-> value, arg |-> r]

\* One dynamic dispatch of recv.Merge(arg).
Merge_Dispatch(recv, arg) ==
    IF recv.kind = "Scalar" THEN ScalarMetric_Merge(recv, arg)
    ELSE RangeMetric_Merge(recv, arg)

RECURSIVE Metric_Merge(_, _)
\* recv.Merge(arg), run to its return.
Metric_Merge(recv, arg) ==
    LET d == Merge_Dispatch(recv, arg)
    IN  IF d.ret THEN d.val ELSE Metric_Merge(d.recv, d.arg)

(***************************************************************************)
(* Input metrics: every ScalarMetric over Values and every RangeMetric     *)
(* that aggregates 2..MaxCount values.                                     *)
(***************************************************************************)
RECURSIVE RangesOfCount(_)
RangesOfCount(n) ==
    IF n = 1 THEN {RangeMetric(a, 1, a, a, Pow2(a)) : a \in Values}
    ELSE {RangeMetric_Add(r, a) : r \in RangesOfCount(n - 1), a \in Values}

ScalarInputs == {ScalarMetric(a) : a \in Values}

RangeInputs == UNION {RangesOfCount(n) : n \in 2..MaxCount}

MetricInputs == ScalarInputs \cup RangeInputs

(***************************************************************************)
(* The metric harness: draws x, y, z and v, then makes the calls           *)
(*   xy = x.Merge(y), yx = y.Merge(x), yz = y.Merge(z),                    *)
(*   xy_z = xy.Merge(z), x_yz = x.Merge(yz), add = x.Add(v)                *)
(* in that order, each Merge one dynamic dispatch at a time.               *)
(***************************************************************************)
NoMetric == [kind |-> "none"]

Idle == [label |-> "idle"]

CallOrder == <<"xy", "yx", "yz", "xy_z", "x_yz", "add">>

NoResults == [l \in {CallOrder[i] : i \in 1..Len(CallOrder)} |-> NoMetric]

MetricInit ==
    /\ mx \in MetricInputs
    /\ my \in MetricInputs
    /\ mz \in MetricInputs
    /\ mv \in Values
    /\ mres = NoResults
    /\ mcall = Idle

MetricIdle ==
    /\ mx = ScalarMetric(0)
    /\ my = ScalarMetric(0)
    /\ mz = ScalarMetric(0)
    /\ mv = 0
    /\ mres = NoResults
    /\ mcall = Idle

\* The next call to make: the first label without a result.
NextLabel ==
    LET open == {i \in 1..Len(CallOrder) : mres[CallOrder[i]] = NoMetric}
    IN  IF open = {} THEN "done"
        ELSE CallOrder[CHOOSE i \in open : \A j \in open : i <= j]

Operands(label) ==
    CASE label = "xy"   -> <<mx, my>>
      [] label = "yx"   -> <<my, mx>>
      [] label = "yz"   -> <<my, mz>>
      [] label = "xy_z" -> <<mres["xy"], mz>>
      [] label = "x_yz" -> <<mx, mres["yz"]>>

\* A caller invokes recv.Merge(arg).
MergeCall ==
    /\ mcall = Idle
    /\ NextLabel \notin {"add", "done"}
    /\ mcall' = [label |-> NextLabel,
                 recv  |-> Operands(NextLabel)[1],
                 arg   |-> Operands(NextLabel)[2],
                 depth |-> 0]
    /\ UNCHANGED <<mx, my, mz, mv, mres>>
    /\ UNCHANGED agentVars

\* The method body of the receiver's dynamic type runs and delegates.
MergeDelegate ==
    /\ mcall # Idle
    /\ LET d == Merge_Dispatch(mcall.recv, mcall.arg)
       IN  /\ ~d.ret
           /\ mcall' = [mcall EXCEPT !.recv = d.recv, !.arg = d.arg,
                                     !.depth = @ + 1]
    /\ UNCHANGED <<mx, my, mz, mv, mres>>
    /\ UNCHANGED agentVars

\* The method body of the receiver's dynamic type runs and returns.
MergeReturn ==
    /\ mcall # Idle
    /\ LET d == Merge_Dispatch(mcall.recv, mcall.arg)
       IN  /\ d.ret
           /\ mres' = [mres EXCEPT ![mcall.label] = d.val]
    /\ mcall' = Idle
    /\ UNCHANGED <<mx, my, mz, mv>>
    /\ UNCHANGED agentVars

\* A caller invokes x.Add(v).
AddCall ==
    /\ mcall = Idle
    /\ NextLabel = "add"
    /\ mres' = [mres EXCEPT !["add"] = Metric_Add(mx, mv)]
    /\ UNCHANGED <<mx, my, mz, mv, mcall>>
    /\ UNCHANGED agentVars


(***************************************************************************)
(* Errors (error.go).  An *Error is its code; the error statusError builds *)
(* with fmt.Errorf for an unexpected status carries that status.           *)
(***************************************************************************)
mkerr(code) == [code |-> code, status |-> 0]

nil == mkerr("nil")

iserr(e, code) == e.code = code

\* What http.Client.Do returns when the request does not reach the endpoint.
TransportError == mkerr("transport")

(***************************************************************************)
(* Components and their Metrics maps.                                      *)
(***************************************************************************)
EmptyMetrics == [k \in {} |-> NoMetric]

\* The Component addComponent.Exec allocates.
NewComponent(name, guid) ==
    [Name |-> name, GUID |-> guid, Metrics |-> EmptyMetrics, start |-> 0]

\* Metrics.AddMetric storing val over the metric already there.
Metrics_AddMetric_Overwrite(m, name, val) ==
    [k \in DOMAIN m \cup {name} |-> IF k = name THEN val ELSE m[k]]

\* func (m Metrics) AddMetric(name string, val Metric)
Metrics_AddMetric(m, name, val) ==
    IF name \in DOMAIN m
    THEN [m EXCEPT ![name] = Metric_Merge(val, m[name])]
    ELSE [k \in DOMAIN m \cup {name} |-> IF k = name THEN val ELSE m[k]]

\* func (m Metrics) MergeMetrics(metrics Metrics): AddMetric for every key of
\* metrics; the keys are distinct, so the order of the range does not matter.
Metrics_MergeMetrics(m, metrics) ==
    [k \in DOMAIN m \cup DOMAIN metrics |->
        IF k \notin DOMAIN metrics THEN m[k]
        ELSE Metrics_AddMetric(m, k, metrics[k])[k]]

\* func (c *Component) updateTiming(), at clock reading t.  (The Duration it
\* also stores is overwritten in every payload copy and is not modelled.)
updateTiming(c, t) ==
    IF c.start = 0 THEN [c EXCEPT !.start = t] ELSE c

\* addComponent.Exec matching on the name alone.
addComponent_Exec_ByName(comps, name, guid) ==
    LET found == {i \in 1..Len(comps) : comps[i].Name = name}
    IN  IF found # {}
        THEN [components |-> comps,
              handle |-> CHOOSE i \in found : \A j \in found : i <= j]
        ELSE [components |-> Append(comps,
                  [Name |-> name, GUID |-> guid,
                   Metrics |-> [k \in {} |-> [kind |-> "none"]],
                   start |-> 0]),
              handle |-> Len(comps) + 1]

\* func (ac addComponent) Exec(a *Agent): the components after the call and
\* the handle (index) sent on ac.out.
addComponent_Exec(comps, name, guid) ==
    LET found == {i \in 1..Len(comps) :
                     comps[i].Name = name /\ comps[i].GUID = guid}
    IN  IF found # {}
        THEN [components |-> comps,
              handle |-> CHOOSE i \in found : \A j \in found : i <= j]
        ELSE [components |-> Append(comps, NewComponent(name, guid)),
              handle |-> Len(comps) + 1]

\* clear leaving the window start as it is.
clear_KeepsStart(comps) ==
    [i \in 1..Len(comps) |->
        [comps[i] EXCEPT !.Metrics = [k \in {} |-> [kind |-> "none"]]]]

\* func (a *Agent) clear()
clear(comps) ==
    [i \in 1..Len(comps) |->
        [comps[i] EXCEPT !.Metrics = EmptyMetrics, !.start = 0]]

(***************************************************************************)
(* Delivery.                                                               *)
(***************************************************************************)
\* The copy without the clamp of a negative duration.
PayloadCopy_Unclamped(com, from) ==
    [Name     |-> com.Name,
     GUID     |-> com.GUID,
     Metrics  |-> com.Metrics,
     start    |-> com.start,
     Duration |-> from - com.start]

\* The copy getPayload makes of an eligible component.
PayloadCopy(com, from) ==
    [Name     |-> com.Name,
     GUID     |-> com.GUID,
     Metrics  |-> com.Metrics,
     start    |-> com.start,
     Duration |-> IF from - com.start < 0 THEN 0 ELSE from - com.start]

\* The test without len(com.Metrics) == 0.
Excluded_StartOnly(com) == com.start = 0

\* getPayload's test for leaving a component out.
Excluded(com) == DOMAIN com.Metrics = {} \/ com.start = 0

\* getPayload stopping at the first component it keeps.
getPayload_FirstOnly(comps, from) ==
    LET kept == SelectSeq(comps, LAMBDA com : ~Excluded(com))
    IN  [i \in 1..Min(1, Len(kept)) |-> PayloadCopy(kept[i], from)]

\* func (a *Agent) getPayload(w, from, compressed): body.Components of the
\* copy it encodes; empty means errNoMetrics.
getPayload(comps, from) ==
    LET kept == SelectSeq(comps, LAMBDA com : ~Excluded(com))
    IN  [i \in 1..Len(kept) |-> PayloadCopy(kept[i], from)]

\* statusError taking 300 for a success too.
statusError_Through300(code) ==
    CASE code >= 200 /\ code <= 300 -> [code |-> "nil", status |-> 0]
      [] code = 400 -> [code |-> "ErrBadPayload", status |-> 0]
      [] code = 403 -> [code |-> "ErrForbidden", status |-> 0]
      [] code = 404 -> [code |-> "ErrBadRequest", status |-> 0]
      [] code = 405 -> [code |-> "ErrBadRequest", status |-> 0]
      [] code = 413 -> [code |-> "ErrBodyTooLarge", status |-> 0]
      [] code >= 500 /\ code < 600 -> [code |-> "errMustRetry", status |-> 0]
      [] OTHER -> [code |-> "unexpected", status |-> code]

\* statusError taking 600 for a server error too.
statusError_Through600(code) ==
    CASE code >= 200 /\ code < 300 -> [code |-> "nil", status |-> 0]
      [] code = 400 -> [code |-> "ErrBadPayload", status |-> 0]
      [] code = 403 -> [code |-> "ErrForbidden", status |-> 0]
      [] code = 404 -> [code |-> "ErrBadRequest", status |-> 0]
      [] code = 405 -> [code |-> "ErrBadRequest", status |-> 0]
      [] code = 413 -> [code |-> "ErrBodyTooLarge", status |-> 0]
      [] code >= 500 /\ code <= 600 -> [code |-> "errMustRetry", status |-> 0]
      [] OTHER -> [code |-> "unexpected", status |-> code]

\* func statusError(resp *http.Response) error
statusError(code) ==
    CASE code >= 200 /\ code < 300 -> nil
      [] code = 400 -> mkerr("ErrBadPayload")
      [] code = 403 -> mkerr("ErrForbidden")
      [] code = 404 -> mkerr("ErrBadRequest")
      [] code = 405 -> mkerr("ErrBadRequest")
      [] code = 413 -> mkerr("ErrBodyTooLarge")
      [] code >= 500 /\ code < 600 -> mkerr("errMustRetry")
      [] OTHER -> [code |-> "unexpected", status |-> code]

\* How the encoding of a payload goes: without error; a MarshalJSON method
\* returns an error (a ScalarMetric that is NaN or infinite); the encoder
\* meets a value it does not support (a RangeMetric with such a field); the
\* gzip writer alone fails.
EncOutcomes == {"ok", "marshaler", "unsupported", "gzip"}

\* The error of json.Encoder.Encode and gzip.Writer.Close in getPayload.
Encode(enc, compressed) ==
    CASE enc = "marshaler" -> mkerr("json.MarshalerError")
      [] enc = "unsupported" -> mkerr("json.UnsupportedValueError")
      [] enc = "gzip" /\ compressed -> mkerr("gzip")
      [] OTHER -> nil

\* What the endpoint may answer to one POST: a transport error, or a status
\* and a body.  The payload encodes without error.
Responses ==
    {[transport |-> TRUE, status |-> 0, body |-> "", enc |-> "ok"]}
    \cup {[transport |-> FALSE, status |-> s, body |-> b, enc |-> "ok"] :
            s \in StatusCodes, b \in Bodies}

\* sendRequest from http.NewRequest on: the error for the answer resp.
Post(resp) ==
    IF resp.transport THEN TransportError
    ELSE IF resp.status = 200 THEN nil
    ELSE statusError(resp.status)

\* sendRequest returning errNoMetrics to its caller.
sendRequest_NoMetricsError(comps, from, resp) ==
    LET body == getPayload(comps, from)
        first == Encode(resp.enc, TRUE)
        second == Encode(resp.enc, FALSE)
        Out(e, posted, tried, zipped) ==
            [err |-> e, payload |-> body, posted |-> posted,
             tried |-> tried,
             zipped |-> zipped,
             gzip |-> posted /\ zipped]
    IN  IF Len(body) = 0
        THEN Out(mkerr("errNoMetrics"), FALSE, <<mkerr("errNoMetrics")>>,
                 FALSE)
        ELSE IF first = nil
        THEN Out(Post(resp), TRUE, <<first>>, TRUE)
        ELSE IF iserr(first, "json.MarshalerError")
        THEN Out(mkerr("ErrEncodingJSON"), FALSE, <<first>>, FALSE)
        ELSE IF second = nil
        THEN Out(Post(resp), TRUE, <<first, second>>, FALSE)
        ELSE IF iserr(second, "json.MarshalerError")
        THEN Out(mkerr("ErrEncodingJSON"), FALSE, <<first, second>>, FALSE)
        ELSE Out(second, FALSE, <<first, second>>, FALSE)

\* sendRequest setting Content-Encoding: gzip on every request.
sendRequest_AlwaysGzip(comps, from, resp) ==
    LET body == getPayload(comps, from)
        first == Encode(resp.enc, TRUE)
        second == Encode(resp.enc, FALSE)
        Out(e, posted, tried, zipped) ==
            [err |-> e, payload |-> body, posted |-> posted,
             tried |-> tried,
             zipped |-> zipped,
             gzip |-> posted]
    IN  IF Len(body) = 0
        THEN Out(nil, FALSE, <<mkerr("errNoMetrics")>>, FALSE)
        ELSE IF first = nil
        THEN Out(Post(resp), TRUE, <<first>>, TRUE)
        ELSE IF iserr(first, "json.MarshalerError")
        THEN Out(mkerr("ErrEncodingJSON"), FALSE, <<first>>, FALSE)
        ELSE IF second = nil
        THEN Out(Post(resp), TRUE, <<first, second>>, FALSE)
        ELSE IF iserr(second, "json.MarshalerError")
        THEN Out(mkerr("ErrEncodingJSON"), FALSE, <<first, second>>, FALSE)
        ELSE Out(second, FALSE, <<first, second>>, FALSE)

\* func (a *Agent) sendRequest(from time.Time) (err error), the endpoint
\* answering resp if asked: the error returned, the payload built, whether
\* a request was issued.
sendRequest(comps, from, resp) ==
    LET body == getPayload(comps, from)
        first == Encode(resp.enc, TRUE)
        second == Encode(resp.enc, FALSE)
        Out(e, posted, tried, zipped) ==
            [err |-> e, payload |-> body, posted |-> posted,
             tried |-> tried,               \* the error of each getPayload
             zipped |-> zipped,             \* the body posted is compressed
             gzip |-> posted /\ zipped]     \* Content-Encoding: gzip is set
    IN  IF Len(body) = 0
        THEN Out(nil, FALSE, <<mkerr("errNoMetrics")>>, FALSE)
        ELSE IF first = nil
        THEN Out(Post(resp), TRUE, <<first>>, TRUE)
        ELSE IF iserr(first, "json.MarshalerError")
        THEN Out(mkerr("ErrEncodingJSON"), FALSE, <<first>>, FALSE)
        ELSE IF second = nil
        THEN Out(Post(resp), TRUE, <<first, second>>, FALSE)
        ELSE IF iserr(second, "json.MarshalerError")
        THEN Out(mkerr("ErrEncodingJSON"), FALSE, <<first, second>>, FALSE)
        ELSE Out(second, FALSE, <<first, second>>, FALSE)

(***************************************************************************)
(* The last step.                                                          *)
(***************************************************************************)
NoEv ==
    [kind    |-> "none",  \* which event or op ran
     from    |-> 0,       \* the time handed to sendRequest
     sent    |-> FALSE,   \* sendRequest ran
     posted  |-> FALSE,   \* a request was issued
     status  |-> 0,       \* the status answered (0: none, or transport error)
     result  |-> nil,     \* the error sendRequest or the op returned
     payload |-> << >>,   \* body.Components of the payload built
     tried   |-> << >>,   \* the error of each build of the payload
     spawned |-> FALSE,   \* Start started a runloop
     zipped  |-> FALSE,   \* the body of the request was built compressed
     gzip    |-> FALSE,   \* the request has Content-Encoding: gzip
     pair    |-> << >>,   \* the (name, GUID) a Component call asked for
     handle  |-> 0,       \* the handle a Component call returned
     arg     |-> << >>,   \* the map handed to MergeMetrics, as at the call
     merged  |-> << >>,   \* the entries the worker's range over it read
     raced   |-> FALSE]   \* the caller wrote the map while the op ran

SendEv(kind, from, resp, r) ==
    [NoEv EXCEPT !.kind = kind, !.from = from, !.sent = TRUE,
                 !.posted = r.posted,
                 !.status = IF r.posted THEN resp.status ELSE 0,
                 !.result = r.err, !.payload = r.payload,
                 !.tried = r.tried, !.zipped = r.zipped, !.gzip = r.gzip]

(***************************************************************************)
(* History: the values recorded per component and metric name.             *)
(***************************************************************************)
\* Nothing recorded: no value any times, no RangeMetric merged in.
NoHist == [cnt |-> [a \in Values |-> 0], mixed |-> FALSE]

\* A RangeMetric was merged in: the values are no longer tracked.
MixedHist == [cnt |-> [a \in Values |-> 0], mixed |-> TRUE]

NoHists == [k \in MetricNames |-> NoHist]

RecordHist(h, name, val) ==
    IF val.kind = "Scalar" /\ ~h[name].mixed
    THEN [h EXCEPT ![name].cnt[val.v] = @ + 1]
    ELSE [h EXCEPT ![name] = MixedHist]

RecordHists(h, metrics) ==
    [k \in MetricNames |->
        IF k \in DOMAIN metrics THEN RecordHist(h, k, metrics[k])[k] ELSE h[k]]

\* Recordings held, by Count.
CountOf(m) == IF m.kind = "Scalar" THEN 1 ELSE m.Count

RECURSIVE SumCounts(_, _)
SumCounts(m, keys) ==
    IF keys = {} THEN 0
    ELSE LET k == CHOOSE x \in keys : TRUE
         IN  CountOf(m[k]) + SumCounts(m, keys \ {k})

RECURSIVE Held(_, _)
Held(comps, i) ==
    IF i = 0 THEN 0
    ELSE SumCounts(comps[i].Metrics, DOMAIN comps[i].Metrics)
            + Held(comps, i - 1)

\* Callers stop recording when the agent holds quota recordings.
Room(quota, extra) == Held(components, Len(components)) + extra <= quota

(***************************************************************************)
(* The agent.                                                              *)
(***************************************************************************)
\* NewWithRep testing the host before the version.
NewWithRep_HostFirst(apiKey, rep) ==
    CASE Len(apiKey) = 0 -> mkerr("ErrNoAPIKey")
      [] Len(rep.Host) = 0 -> mkerr("ErrNoHost")
      [] Len(rep.Version) = 0 -> mkerr("ErrNoVersion")
      [] OTHER -> nil

\* func NewWithRep(apiKey string, rep AgentRep) (agent *Agent, err error):
\* the error returned; an agent is returned when it is nil.
NewWithRep(apiKey, rep) ==
    CASE Len(apiKey) = 0 -> mkerr("ErrNoAPIKey")
      [] Len(rep.Version) = 0 -> mkerr("ErrNoVersion")
      [] Len(rep.Host) = 0 -> mkerr("ErrNoHost")
      [] OTHER -> nil

\* Agent.Close has not been called.
NotClosing == [pc |-> "idle", err |-> nil]

\* The state NewWithRep(apiKey, rep) leaves: a dormant agent, or none.
AgentInitOf(apiKey, rep) ==
    /\ cfg = [apiKey |-> apiKey, rep |-> rep]
    /\ state = IF NewWithRep(apiKey, rep) = nil THEN "Dormant" ELSE "NoAgent"
    /\ components = << >>
    /\ err = nil
    /\ retryNeeded = FALSE
    /\ timer = "nil"
    /\ retryC = 0
    /\ tickC = 0
    /\ now = 1
    /\ ev = [NoEv EXCEPT !.kind = "new", !.result = NewWithRep(apiKey, rep)]
    /\ hist = << >>
    /\ LogMetrics = FALSE
    /\ readers = {}
    /\ closing = NotClosing
    /\ lastFatal = FALSE

\* NewWithRep with a key, a version and a host: a dormant agent.
AgentInit == AgentInitOf("key", [Version |-> "1.0", Host |-> "host"])

\* Start without the test of a.ops: a runloop is started on every call.
Start_Always ==
    /\ state \in {"Dormant", "Active", "Stopped"}
    /\ state' = "Active"
    /\ ev' = [NoEv EXCEPT !.kind = "start", !.spawned = TRUE]
    /\ UNCHANGED <<components, err, retryNeeded, timer, retryC,
                   tickC, now, hist>>
    /\ UNCHANGED <<cfg, LogMetrics, readers, closing, lastFatal>>
    /\ UNCHANGED metricVars

\* func (a *Agent) Start(): a.ops is nil until the first call, and is never
\* set back to nil.
Start ==
    /\ state \in {"Dormant", "Active", "Stopped"}
    /\ state' = IF state = "Dormant" THEN "Active" ELSE state
    /\ ev' = [NoEv EXCEPT !.kind = "start", !.spawned = (state = "Dormant")]
    /\ UNCHANGED <<components, err, retryNeeded, timer, retryC,
                   tickC, now, hist>>
    /\ UNCHANGED <<cfg, LogMetrics, readers, closing, lastFatal>>
    /\ UNCHANGED metricVars

\* The caller sets a.LogMetrics and a.Log before Start.
Configure ==
    /\ state = "Dormant"
    /\ ~LogMetrics
    /\ LogMetrics' = TRUE
    /\ ev' = NoEv
    /\ UNCHANGED <<state, components, err, retryNeeded, timer, retryC,
                   tickC, now, hist>>
    /\ UNCHANGED <<cfg, readers, closing, lastFatal>>
    /\ UNCHANGED metricVars

\* The clock advances (nothing reads it once the runloop has returned).
Advance ==
    /\ state \in {"Dormant", "Active"}
    /\ now < MaxTime
    /\ now' = now + 1
    /\ ev' = NoEv
    /\ UNCHANGED <<state, components, err, retryNeeded, timer,
                   retryC, tickC, hist>>
    /\ UNCHANGED <<cfg, LogMetrics, readers, closing, lastFatal>>
    /\ UNCHANGED metricVars

\* a.ticker delivers a tick (a tick that finds the channel full is dropped).
TickFire ==
    /\ state = "Active"
    /\ tickC = 0
    /\ tickC' = now
    /\ ev' = NoEv
    /\ UNCHANGED <<state, components, err, retryNeeded, timer,
                   retryC, now, hist>>
    /\ UNCHANGED <<cfg, LogMetrics, readers, closing, lastFatal>>
    /\ UNCHANGED metricVars

\* The retry timer expires (nothing receives from it once the runloop has
\* returned).
TimerFire ==
    /\ state = "Active"
    /\ timer = "armed"
    /\ timer' = "idle"
    /\ retryC' = now
    /\ ev' = NoEv
    /\ UNCHANGED <<state, components, err, retryNeeded, tickC,
                   now, hist>>
    /\ UNCHANGED <<cfg, LogMetrics, readers, closing, lastFatal>>
    /\ UNCHANGED metricVars

\* func (a *Agent) logMetrics(): the maps read by logComponentMetrics
\* goroutines once it has run.  Each copied Component shares its Metrics map
\* with the agent's.
logMetrics(comps, reading) ==
    reading \cup {i \in 1..Len(comps) : DOMAIN comps[i].Metrics # {}}

\* A logComponentMetrics goroutine is done with one component's map.
LogDone ==
    /\ \E i \in readers : readers' = readers \ {i}
    /\ ev' = NoEv
    /\ UNCHANGED <<state, components, err, retryNeeded, timer, retryC,
                   tickC, now, hist>>
    /\ UNCHANGED <<cfg, LogMetrics, closing, lastFatal>>
    /\ UNCHANGED metricVars

\* trySend without the timer.Reset branch: the timer is started once.
trySend_ArmOnce(kind, from, resp, reading) ==
    LET r == sendRequest(components, from, resp)
    IN  /\ ev' = SendEv(kind, from, resp, r)
        /\ lastFatal' = (r.err # nil /\ ~iserr(r.err, "errMustRetry"))
        /\ IF r.err = nil
           THEN /\ retryNeeded' = FALSE
                /\ components' = clear(components)
                /\ hist' = [i \in 1..Len(hist) |-> NoHists]
                /\ readers' = {}
                /\ UNCHANGED <<timer, err>>
           ELSE IF iserr(r.err, "errMustRetry")
           THEN /\ timer' = IF timer = "nil" THEN "armed" ELSE timer
                /\ retryNeeded' = TRUE
                /\ readers' = reading
                /\ UNCHANGED <<components, hist, err>>
           ELSE /\ err' = r.err
                /\ readers' = reading
                /\ UNCHANGED <<retryNeeded, components, hist, timer>>

\* trySend with a successful send wiping the last error.
trySend_ResetsErr(kind, from, resp, reading) ==
    LET r == sendRequest(components, from, resp)
    IN  /\ ev' = SendEv(kind, from, resp, r)
        /\ lastFatal' = (r.err # nil /\ ~iserr(r.err, "errMustRetry"))
        /\ IF r.err = nil
           THEN /\ retryNeeded' = FALSE
                /\ components' = clear(components)
                /\ hist' = [i \in 1..Len(hist) |-> NoHists]
                /\ readers' = {}        \* clear allocates new maps
                /\ err' = nil
                /\ UNCHANGED timer
           ELSE IF iserr(r.err, "errMustRetry")
           THEN /\ timer' = "armed"     \* NewTimer, or Reset
                /\ retryNeeded' = TRUE
                /\ readers' = reading
                /\ UNCHANGED <<components, hist, err>>
           ELSE /\ err' = r.err
                /\ readers' = reading
                /\ UNCHANGED <<retryNeeded, components, hist, timer>>

\* run's trySend closure, the endpoint answering resp if asked, the
\* logComponentMetrics goroutines reading the maps in reading.  (a.lastPoll,
\* which it also sets on success, is read nowhere and is not modelled.)
trySend(kind, from, resp, reading) ==
    LET r == sendRequest(components, from, resp)
    IN  /\ ev' = SendEv(kind, from, resp, r)
        /\ lastFatal' = (r.err # nil /\ ~iserr(r.err, "errMustRetry"))
        /\ IF r.err = nil
           THEN /\ retryNeeded' = FALSE
                /\ components' = clear(components)
                /\ hist' = [i \in 1..Len(hist) |-> NoHists]
                /\ readers' = {}        \* clear allocates new maps
                /\ UNCHANGED <<timer, err>>
           ELSE IF iserr(r.err, "errMustRetry")
           THEN /\ timer' = "armed"     \* NewTimer, or Reset
                /\ retryNeeded' = TRUE
                /\ readers' = reading
                /\ UNCHANGED <<components, hist, err>>
           ELSE /\ err' = r.err
                /\ readers' = reading
                /\ UNCHANGED <<retryNeeded, components, hist, timer>>

\* The retry case taken by a runloop that has returned.
Retry_AfterStop(answers) ==
    /\ retryC # 0
    /\ retryC' = 0
    /\ \E resp \in answers : trySend("retry", retryC, resp, readers)
    /\ UNCHANGED <<state, tickC, now>>
    /\ UNCHANGED <<cfg, LogMetrics, closing>>
    /\ UNCHANGED metricVars

\* run: case from := <-retry
Retry(answers) ==
    /\ state = "Active"
    /\ retryC # 0
    /\ retryC' = 0
    /\ \E resp \in answers : trySend("retry", retryC, resp, readers)
    /\ UNCHANGED <<state, tickC, now>>
    /\ UNCHANGED <<cfg, LogMetrics, closing>>
    /\ UNCHANGED metricVars

\* The ticker case without the test of retryNeeded.
Tick_Unguarded(answers) ==
    /\ state = "Active"
    /\ tickC # 0
    /\ tickC' = 0
    /\ \E resp \in answers :
         trySend("tick", tickC, resp,
                 IF LogMetrics THEN logMetrics(components, readers)
                 ELSE readers)
    /\ UNCHANGED <<state, retryC, now>>
    /\ UNCHANGED <<cfg, LogMetrics, closing>>
    /\ UNCHANGED metricVars

\* run: case from := <-a.ticker.C, no retry pending
Tick(answers) ==
    /\ state = "Active"
    /\ tickC # 0
    /\ ~retryNeeded
    /\ tickC' = 0
    /\ \E resp \in answers :
         trySend("tick", tickC, resp,
                 IF LogMetrics THEN logMetrics(components, readers)
                 ELSE readers)
    /\ UNCHANGED <<state, retryC, now>>
    /\ UNCHANGED <<cfg, LogMetrics, closing>>
    /\ UNCHANGED metricVars

\* run: case from := <-a.ticker.C, a retry pending
TickSkipped ==
    /\ state = "Active"
    /\ tickC # 0
    /\ retryNeeded
    /\ tickC' = 0
    /\ ev' = [NoEv EXCEPT !.kind = "tick", !.from = tickC]
    /\ readers' = IF LogMetrics THEN logMetrics(components, readers)
                  ELSE readers
    /\ UNCHANGED <<state, components, err, retryNeeded, timer,
                   retryC, now, hist>>
    /\ UNCHANGED <<cfg, LogMetrics, closing, lastFatal>>
    /\ UNCHANGED metricVars

\* Component refusing a name of 32 characters too.
Component_OffByOne(pairs) ==
    /\ \E p \in pairs :
       IF Len(p[1]) >= MaxNameLen
       THEN /\ state \in {"Dormant", "Active", "Stopped"}
            /\ ev' = [NoEv EXCEPT !.kind = "component", !.pair = p,
                                  !.result = mkerr("ErrNameTooLong")]
            /\ UNCHANGED <<components, hist>>
       ELSE LET r == addComponent_Exec(components, p[1], p[2])
            IN  /\ state = "Active"
                /\ components' = r.components
                /\ hist' = IF Len(r.components) > Len(components)
                           THEN Append(hist, NoHists) ELSE hist
                /\ ev' = [NoEv EXCEPT !.kind = "component", !.pair = p,
                                      !.handle = r.handle]
    /\ UNCHANGED <<state, err, retryNeeded, timer, retryC, tickC,
                   now>>
    /\ UNCHANGED <<cfg, LogMetrics, readers, closing, lastFatal>>
    /\ UNCHANGED metricVars

\* func (a *Agent) Component(name, guid string) (*Component, error): the
\* length test made by the caller, then the op run by the worker.
Component(pairs) ==
    /\ \E p \in pairs :
       IF Len(p[1]) > MaxNameLen
       THEN /\ state \in {"Dormant", "Active", "Stopped"}
            /\ ev' = [NoEv EXCEPT !.kind = "component", !.pair = p,
                                  !.result = mkerr("ErrNameTooLong")]
            /\ UNCHANGED <<components, hist>>
       ELSE LET r == addComponent_Exec(components, p[1], p[2])
            IN  /\ state = "Active"
                /\ components' = r.components
                /\ hist' = IF Len(r.components) > Len(components)
                           THEN Append(hist, NoHists) ELSE hist
                /\ ev' = [NoEv EXCEPT !.kind = "component", !.pair = p,
                                      !.handle = r.handle]
    /\ UNCHANGED <<state, err, retryNeeded, timer, retryC, tickC,
                   now>>
    /\ UNCHANGED <<cfg, LogMetrics, readers, closing, lastFatal>>
    /\ UNCHANGED metricVars

\* The worker writes component c's Metrics map while a logComponentMetrics
\* goroutine reads it: the write goes through, or the runtime ends the
\* process (concurrent map read and map write).
RacingWrite(c) ==
    \/ state' = state
    \/ /\ c \in readers
       /\ state' = "Crashed"

\* Component.MergeMetric(name, value) on handle c, its op run by the worker.
MergeMetricOp(c, name, value, quota) ==
    /\ state = "Active"
    /\ Room(quota, CountOf(value))
    /\ RacingWrite(c)
    /\ components' = [components EXCEPT ![c] =
          updateTiming([@ EXCEPT !.Metrics =
                            Metrics_AddMetric(@, name, value)], now)]
    /\ hist' = [hist EXCEPT ![c] = RecordHist(@, name, value)]
    /\ ev' = NoEv
    /\ UNCHANGED <<err, retryNeeded, timer, retryC, tickC, now>>
    /\ UNCHANGED <<cfg, LogMetrics, readers, closing, lastFatal>>
    /\ UNCHANGED metricVars

\* Component.AddMetric(name, value)
AddMetric(names, values, quota) ==
    \E c \in 1..Len(components), name \in names, value \in values :
        MergeMetricOp(c, name, ScalarMetric(value), quota)

\* Component.MergeMetric(name, value)
MergeMetric(names, metrics, quota) ==
    \E c \in 1..Len(components), name \in names, value \in metrics :
        MergeMetricOp(c, name, value, quota)

\* The maps over names with the given metrics as values.
MetricsOver(names, metrics) == UNION {[keys -> metrics] : keys \in SUBSET names}

\* Component.MergeMetrics(metrics) on handle c, its op run by the worker,
\* the caller leaving the map alone until the op has run.
MergeMetrics(maps, quota) ==
    \E c \in 1..Len(components), metrics \in maps :
        /\ state = "Active"
        /\ Room(quota, SumCounts(metrics, DOMAIN metrics))
        /\ IF DOMAIN metrics = {} THEN state' = state ELSE RacingWrite(c)
        /\ components' = [components EXCEPT ![c] =
              updateTiming([@ EXCEPT !.Metrics =
                                Metrics_MergeMetrics(@, metrics)], now)]
        /\ hist' = [hist EXCEPT ![c] = RecordHists(@, metrics)]
        /\ ev' = NoEv
        /\ UNCHANGED <<err, retryNeeded, timer, retryC, tickC, now>>
        /\ UNCHANGED <<cfg, LogMetrics, readers, closing, lastFatal>>
        /\ UNCHANGED metricVars

\* What a range over a map reads while another goroutine takes the map from
\* before to after: for each key the entry of one of the two, a key that
\* only one of them has being read or missed.
Ranged(before, after) ==
    LET keys == DOMAIN before \cup DOMAIN after
        At(k) == (IF k \in DOMAIN before THEN {before[k]} ELSE {})
                 \cup (IF k \in DOMAIN after THEN {after[k]} ELSE {})
    IN  {seen \in MetricsOver(keys, UNION {At(k) : k \in keys}) :
            /\ DOMAIN before \cap DOMAIN after \subseteq DOMAIN seen
            /\ \A k \in DOMAIN seen : seen[k] \in At(k)}

\* Component.MergeMetrics(metrics) on handle c, the caller going on to write
\* the map it handed in.  The op is a closure holding the map itself, not a
\* copy, and the send on the unbuffered a.ops returns as soon as the worker has
\* taken the op: the caller's writes, which take the map from metrics to
\* after, run beside the worker's range over it.  The range reads some mix of
\* the two, or the runtime ends the process (concurrent map iteration and
\* map write).
MergeMetricsReused(maps, quota) ==
    \E c \in 1..Len(components), metrics \in maps, after \in maps :
      \E seen \in Ranged(metrics, after) :
        /\ state = "Active"
        /\ after # metrics
        /\ Room(quota, SumCounts(seen, DOMAIN seen))
        /\ state' \in {state, "Crashed"}
        /\ components' = [components EXCEPT ![c] =
              updateTiming([@ EXCEPT !.Metrics =
                                Metrics_MergeMetrics(@, seen)], now)]
        /\ hist' = [hist EXCEPT ![c] = RecordHists(@, seen)]
        /\ ev' = [NoEv EXCEPT !.kind = "mergemetrics", !.handle = c,
                              !.arg = metrics, !.merged = seen,
                              !.raced = TRUE]
        /\ UNCHANGED <<err, retryNeeded, timer, retryC, tickC, now>>
        /\ UNCHANGED <<cfg, LogMetrics, readers, closing, lastFatal>>
        /\ UNCHANGED metricVars

\* Agent.Err(): opGetErr.Exec sends a.err to the caller.
GetErr ==
    /\ state = "Active"
    /\ ev' = [NoEv EXCEPT !.kind = "geterr", !.result = err]
    /\ UNCHANGED <<state, components, err, retryNeeded, timer,
                   retryC, tickC, now, hist>>
    /\ UNCHANGED <<cfg, LogMetrics, readers, closing, lastFatal>>
    /\ UNCHANGED metricVars

\* func (a *Agent) Close() error, up to err := a.Err(): the worker runs the
\* opGetErr, and the caller goes on to send shutdown.
Close ==
    /\ state = "Active"
    /\ closing.pc = "idle"
    /\ closing' = [pc |-> "shutdown", err |-> err]
    /\ ev' = [NoEv EXCEPT !.kind = "close", !.result = err]
    /\ UNCHANGED <<state, components, err, retryNeeded, timer,
                   retryC, tickC, now, hist>>
    /\ UNCHANGED <<cfg, LogMetrics, readers, lastFatal>>
    /\ UNCHANGED metricVars

\* run's op case storing whatever error the op returns.
run_op_StoresAll(ret, e) == IF ret # nil THEN ret ELSE e

\* run: case op, ok := <-ops, from err := op(a) on: a.err afterwards, the op
\* returning ret and leaving a.err as e.  (Every op but shutdown returns nil.)
run_op(ret, e) ==
    IF iserr(ret, "errShuttingDown") THEN e
    ELSE IF ret # nil THEN ret
    ELSE e

\* shutdown storing every error of the final flush, errMustRetry too.
Shutdown_StoresAll(answers) ==
    /\ state = "Active"
    /\ closing.pc = "shutdown"
    /\ \E resp \in answers :
        LET r == sendRequest(components, now, resp)
        IN  /\ ev' = SendEv("shutdown", now, resp, r)
            /\ err' = IF r.err # nil THEN r.err ELSE err
    /\ state' = "Stopped"
    /\ closing' = [closing EXCEPT !.pc = "returned"]
    /\ UNCHANGED <<components, retryNeeded, timer, retryC, tickC,
                   now, hist>>
    /\ UNCHANGED <<cfg, LogMetrics, readers, lastFatal>>
    /\ UNCHANGED metricVars

\* func shutdown(a *Agent) error, run by the worker; run then returns, and
\* Close returns the error it holds.
Shutdown(answers) ==
    /\ state = "Active"
    /\ closing.pc = "shutdown"
    /\ \E resp \in answers :
        LET r == sendRequest(components, now, resp)
        IN  /\ ev' = SendEv("shutdown", now, resp, r)
            /\ err' = run_op(mkerr("errShuttingDown"),
                             IF r.err # nil /\ ~iserr(r.err, "errMustRetry")
                             THEN r.err ELSE err)
    /\ state' = "Stopped"
    /\ closing' = [closing EXCEPT !.pc = "returned"]
    /\ UNCHANGED <<components, retryNeeded, timer, retryC, tickC,
                   now, hist>>
    /\ UNCHANGED <<cfg, LogMetrics, readers, lastFatal>>
    /\ UNCHANGED metricVars

(***************************************************************************)
(* Specifications.  Each runs the whole agent; they differ in what the     *)
(* callers and the endpoint are allowed to hand it.                        *)
(***************************************************************************)
AgentNext(pairs, names, values, metrics, maps, quota, answers) ==
    \/ Start
    \/ Advance
    \/ TickFire
    \/ TimerFire
    \/ Retry(answers)
    \/ Tick(answers)
    \/ TickSkipped
    \/ Component(pairs)
    \/ AddMetric(names, values, quota)
    \/ MergeMetric(names, metrics, quota)
    \/ MergeMetrics(maps, quota)
    \/ GetErr
    \/ Close
    \/ Shutdown(answers)

Init == AgentInit /\ MetricIdle

\* Delivery: two components, one metric name and one value; the endpoint
\* answers 200 (success), 503 (retryable) or 400 (fatal).
DeliveryAnswers ==
    {r \in Responses : r.status \in {200, 400, 503} /\ r.body = ""}

Next ==
    AgentNext(TwoPairs, {"hits"}, {1}, {ScalarMetric(1)},
              MetricsOver({"hits"}, {ScalarMetric(1)}), MaxRecordings,
              DeliveryAnswers)

Spec == Init /\ [][Next]_vars

\* Status: one component, one metric name and one value, one recording held
\* at a time; every answer of the endpoint.
NextStatus ==
    AgentNext(OnePair, {"hits"}, {1}, {ScalarMetric(1)},
              MetricsOver({"hits"}, {ScalarMetric(1)}), 1, Responses)

SpecStatus == Init /\ [][NextStatus]_vars

\* Recording: one component, every value and metric; the endpoint answers
\* 200 (success) or 503 (retryable).
RecordAnswers == {r \in Responses : r.status \in {200, 503} /\ r.body = ""}

NextRecord ==
    AgentNext(OnePair, MetricNames, Values, MetricInputs,
              MetricsOver(MetricNames, ScalarInputs \cup RangesOfCount(2)),
              MaxRecordings, RecordAnswers)

SpecRecord == Init /\ [][NextRecord]_vars

\* Registry: every pair, one metric name and one value, one recording held at
\* a time; the endpoint answers 200 (success) or 503 (retryable).
RegistryAnswers == {r \in Responses : r.status \in {200, 503} /\ r.body = ""}

NextRegistry ==
    AgentNext(Pairs, {"hits"}, {1}, {ScalarMetric(1)},
              MetricsOver({"hits"}, {ScalarMetric(1)}), 1, RegistryAnswers)

SpecRegistry == Init /\ [][NextRegistry]_vars

\* Logging: one component, one metric name and one value; the caller may turn
\* metrics logging on before Start; the endpoint answers 200 (success) or 503
\* (retryable).
LogAnswers == {r \in Responses : r.status \in {200, 503} /\ r.body = ""}

NextLog ==
    \/ AgentNext(OnePair, {"hits"}, {1}, {ScalarMetric(1)},
                 MetricsOver({"hits"}, {ScalarMetric(1)}), MaxRecordings,
                 LogAnswers)
    \/ Configure
    \/ LogDone

SpecLog == Init /\ [][NextLog]_vars

\* Callers: NewWithRep called with every key, version and host; component
\* names at the length limit and past it; one recording held at a time; the
\* endpoint answers 200 (success), 503 (retryable) or 400 (fatal).
InitCaller ==
    /\ \E k \in ApiKeys, v \in Versions, h \in Hosts :
          AgentInitOf(k, [Version |-> v, Host |-> h])
    /\ MetricIdle

CallerAnswers ==
    {r \in Responses : r.status \in {200, 400, 503} /\ r.body = ""}

NextCaller ==
    AgentNext(NamedPairs, {"hits"}, {1}, {ScalarMetric(1)},
              MetricsOver({"hits"}, {ScalarMetric(1)}), 1, CallerAnswers)

SpecCaller == InitCaller /\ [][NextCaller]_vars

\* Progress: one component, one metric name and one value, one recording
\* held at a time; the endpoint is out of reach or answers 200, 400 or 503.
\* Every request returns, and an op offered on a.ops is received: select
\* chooses among its ready cases at random, so the worker does not pass over
\* the shutdown op for ever.
LiveAnswers == {r \in Responses : r.status \in {0, 200, 400, 503} /\ r.body = ""}

NextLive ==
    AgentNext(OnePair, {"hits"}, {1}, {ScalarMetric(1)},
              MetricsOver({"hits"}, {ScalarMetric(1)}), 1, LiveAnswers)

SpecLive ==
    Init /\ [][NextLive]_vars /\ WF_vars(Shutdown(LiveAnswers))

\* Encoding: one component, one metric name and one value, one recording
\* held at a time; the payload's encoding goes every way; the endpoint answers
\* 200 (success) or 503 (retryable).
EncodeAnswers ==
    {[transport |-> FALSE, status |-> s, body |-> "", enc |-> e] :
        s \in {200, 503}, e \in EncOutcomes}

NextEncode ==
    AgentNext(OnePair, {"hits"}, {1}, {ScalarMetric(1)},
              MetricsOver({"hits"}, {ScalarMetric(1)}), 1, EncodeAnswers)

SpecEncode == Init /\ [][NextEncode]_vars

\* Reuse: one component, one metric name, scalar values; callers may go on
\* writing the map they handed to MergeMetrics; the endpoint answers 200
\* (success) or 503 (retryable).
ReuseAnswers == {r \in Responses : r.status \in {200, 503} /\ r.body = ""}

NextReuse ==
    \/ AgentNext(OnePair, {"hits"}, {1}, {ScalarMetric(1)},
                 MetricsOver({"hits"}, ScalarInputs),
                 MaxRecordings, ReuseAnswers)
    \/ MergeMetricsReused(MetricsOver({"hits"}, ScalarInputs),
                          MaxRecordings)

SpecReuse == Init /\ [][NextReuse]_vars

\* The metric algebra on its own.
InitMetric == MetricInit /\ AgentInit

NextMetric == MergeCall \/ MergeDelegate \/ MergeReturn \/ AddCall

SpecMetric == InitMetric /\ [][NextMetric]_vars


(***************************************************************************)
(* Properties.                                                             *)
(***************************************************************************)
SameFields(a, b) ==
    /\ a.kind = "Range" /\ b.kind = "Range"
    /\ a.Total = b.Total /\ a.Count = b.Count
    /\ a.Min = b.Min /\ a.Max = b.Max
    /\ a.Square = b.Square

\* C1: x.Merge(y) and y.Merge(x) agree field by field for all metrics x, y,
\* and no Merge call delegates forever: after two delegations (a Scalar
\* receiver handing over to a Scalar argument, which hands over to the
\* promoted Range) the method body that runs returns.
C1_MergeCommutative ==
    /\ (mres["xy"] # NoMetric /\ mres["yx"] # NoMetric)
          => SameFields(mres["xy"], mres["yx"])
    /\ mcall # Idle =>
          /\ mcall.depth <= 2
          /\ mcall.depth = 2 => Merge_Dispatch(mcall.recv, mcall.arg).ret

\* A Scalar merged with a Range, and the reverse, both returned.
C1_Witness ==
    /\ mx.kind = "Scalar" /\ my.kind = "Range"
    /\ mres["xy"] # NoMetric /\ mres["yx"] # NoMetric
    /\ mres["yx"].Count = my.Count + 1
    /\ mres["yx"].Min = Min(mx.v, my.Min)

\* C2: (x.Merge(y)).Merge(z) equals x.Merge(y.Merge(z)) for all metrics
\* x, y, z.
C2_MergeAssociative ==
    (mres["xy_z"] # NoMetric /\ mres["x_yz"] # NoMetric)
        => SameFields(mres["xy_z"], mres["x_yz"])

\* Both groupings of Scalar, Range, Scalar returned.
C2_Witness ==
    /\ mx.kind = "Scalar" /\ my.kind = "Range" /\ mz.kind = "Scalar"
    /\ mx.v # mz.v
    /\ mres["xy_z"] # NoMetric /\ mres["x_yz"] # NoMetric
    /\ mres["x_yz"].Count = my.Count + 2

(***************************************************************************)
(* The statistics of the values recorded under one metric name.            *)
(***************************************************************************)
RECURSIVE Weighted(_, _, _)
\* The sum over the values a in vals of cnt[a] * a^pow.
Weighted(cnt, vals, pow) ==
    IF vals = {} THEN 0
    ELSE LET a == CHOOSE x \in vals : TRUE
         IN  cnt[a] * (CASE pow = 0 -> 1 [] pow = 1 -> a [] pow = 2 -> a * a)
                + Weighted(cnt, vals \ {a}, pow)

Seen(cnt) == {a \in Values : cnt[a] > 0}

Least(S) == CHOOSE a \in S : \A b \in S : a <= b

Greatest(S) == CHOOSE a \in S : \A b \in S : a >= b

\* C3: after n scalar recordings a1..an under one metric name of a component
\* since the last clear, the stored metric is the Scalar a1 when n = 1 and,
\* when n >= 2, the Range with count n, total the sum, min and max exact and
\* sum of squares the sum of the squares.
C3_RangeStatistics ==
    \A c \in 1..Len(components), name \in MetricNames :
        LET h == hist[c][name]
            n == Weighted(h.cnt, Values, 0)
            m == components[c].Metrics
        IN  ~h.mixed =>
              /\ n = 0 => name \notin DOMAIN m
              /\ n = 1 => /\ name \in DOMAIN m
                          /\ m[name] = ScalarMetric(Least(Seen(h.cnt)))
              /\ n >= 2 =>
                    /\ name \in DOMAIN m
                    /\ m[name] = [kind   |-> "Range",
                                  Total  |-> Weighted(h.cnt, Values, 1),
                                  Count  |-> n,
                                  Min    |-> Least(Seen(h.cnt)),
                                  Max    |-> Greatest(Seen(h.cnt)),
                                  Square |-> Weighted(h.cnt, Values, 2)]

\* "hits" recorded as 1 and as 3: Range{total 4, count 2, min 1, max 3,
\* sumSquares 10}.
C3_Witness ==
    /\ Len(components) = 1
    /\ ~hist[1]["hits"].mixed
    /\ hist[1]["hits"].cnt = [a \in Values |-> 1]
    /\ "hits" \in DOMAIN components[1].Metrics
    /\ components[1].Metrics["hits"] = RangeMetric(4, 2, 1, 3, 10)

\* C4: Add on a Scalar s returns the Range of s and v with count 2; Add on a
\* Range returns the Range with count one more and total, min, max and sum of
\* squares updated by v; the receiver is left as it was.
C4_AddContract ==
    /\ [](mres["add"] # NoMetric =>
            IF mx.kind = "Scalar"
            THEN mres["add"] = [kind   |-> "Range",
                                Total  |-> mx.v + mv,
                                Count  |-> 2,
                                Min    |-> IF mx.v < mv THEN mx.v ELSE mv,
                                Max    |-> IF mx.v > mv THEN mx.v ELSE mv,
                                Square |-> mx.v * mx.v + mv * mv]
            ELSE mres["add"] = [kind   |-> "Range",
                                Total  |-> mx.Total + mv,
                                Count  |-> mx.Count + 1,
                                Min    |-> IF mx.Min < mv THEN mx.Min ELSE mv,
                                Max    |-> IF mx.Max > mv THEN mx.Max ELSE mv,
                                Square |-> mx.Square + mv * mv])
    /\ [][mres'["add"] # mres["add"] => mx' = mx]_vars

\* Add on a Range with a value below its minimum returned.
C4_Witness ==
    /\ mx.kind = "Range" /\ mv < mx.Min
    /\ mres["add"] # NoMetric
    /\ mres["add"].Count = mx.Count + 1
    /\ mres["add"].Min = mv

(***************************************************************************)
(* Payloads.                                                               *)
(***************************************************************************)
Eligible(com) == DOMAIN com.Metrics # {} /\ com.start # 0

InPayload(com, payload) ==
    \E j \in 1..Len(payload) :
        /\ payload[j].Name = com.Name
        /\ payload[j].GUID = com.GUID

\* C5: a payload built by getPayload holds no component with an empty
\* metrics mapping or an unset window start, and holds every component that
\* had at least one metric and a set window start when it was built.
C5_PayloadComponents ==
    /\ [](ev.sent =>
            \A j \in 1..Len(ev.payload) :
                /\ DOMAIN ev.payload[j].Metrics # {}
                /\ ev.payload[j].start # 0)
    /\ [][ev'.sent =>
            \A i \in 1..Len(components) :
                Eligible(components[i])
                    <=> InPayload(components[i], ev'.payload)]_vars

\* A payload of one component was built while another component, with a
\* window start and no metrics, was left out.
C5_Witness ==
    /\ ev.sent /\ ev.result # nil
    /\ Len(ev.payload) = 1
    /\ \E i \in 1..Len(components) :
          /\ components[i].start # 0
          /\ DOMAIN components[i].Metrics = {}
          /\ ~InPayload(components[i], ev.payload)

\* C6: the duration of every component of a payload is the payload's time
\* less the window start when that is not negative, and 0 when the time
\* precedes the window start; it is never negative.
C6_DurationClamped ==
    ev.sent =>
        \A j \in 1..Len(ev.payload) :
            LET d == ev.payload[j]
            IN  /\ d.Duration >= 0
                /\ ev.from >= d.start => d.Duration = ev.from - d.start
                /\ ev.from < d.start => d.Duration = 0

\* A payload was built for a time before a component's window start.
C6_Witness ==
    /\ ev.sent
    /\ \E j \in 1..Len(ev.payload) :
          /\ ev.from < ev.payload[j].start
          /\ ev.payload[j].Duration = 0

Cleared(comps) ==
    \A i \in 1..Len(comps) :
        /\ DOMAIN comps[i].Metrics = {}
        /\ comps[i].start = 0

\* C7: right after any send attempt that succeeded, every component has an
\* empty metrics mapping and an unset window start.
C7_SuccessClears ==
    (ev.sent /\ ev.posted /\ ev.result = nil) => Cleared(components)

IsRetryable(status) == status >= 500 /\ status <= 599

\* C8: a send attempt of the running loop (tick or retry timer) answered with
\* a 5xx sets the pending-retry flag and clears no metrics and no window
\* start; a send attempt of the retry timer answered with 200 clears all
\* metrics and the pending-retry flag.
C8_RetryThenSuccess ==
    [][/\ (ev'.kind \in {"tick", "retry"} /\ ev'.posted
              /\ IsRetryable(ev'.status))
           => (retryNeeded' /\ components' = components)
       /\ (ev'.kind = "retry" /\ ev'.posted /\ ev'.status = 200)
           => (~retryNeeded' /\ Cleared(components'))]_vars

\* The retry timer's send attempt was answered with 200.
C8_Witness ==
    /\ ev.kind = "retry" /\ ev.posted /\ ev.status = 200
    /\ ~retryNeeded
    /\ Len(components) > 0
    /\ Cleared(components)

\* The outcome the status table gives.
TableOutcome(status) ==
    IF status \in 200..299 THEN "success"
    ELSE IF status = 400 THEN "ErrBadPayload"
    ELSE IF status = 403 THEN "ErrForbidden"
    ELSE IF status \in {404, 405} THEN "ErrBadRequest"
    ELSE IF status = 413 THEN "ErrBodyTooLarge"
    ELSE IF status \in 500..599 THEN "retryable"
    ELSE "unexpected"

\* C9: the outcome of a send that reached the endpoint is the one the table
\* gives for its status, whatever the body; only 500-599 is retryable, and
\* every other outcome that is not success is recorded as the last error and
\* schedules no retry.
C9_StatusTable ==
    [][(ev'.posted /\ ev'.status # 0) =>
          LET o == TableOutcome(ev'.status)
              e == ev'.result
          IN  /\ o = "success" <=> e = nil
              /\ o = "retryable" <=> e.code = "errMustRetry"
              /\ o = "unexpected" <=>
                    (e.code = "unexpected" /\ e.status = ev'.status)
              /\ o \notin {"success", "retryable", "unexpected"} =>
                    e = [code |-> o, status |-> 0]
              /\ o \notin {"success", "retryable"} =>
                    /\ err' = e
                    /\ timer' = timer
                    /\ retryNeeded' = retryNeeded]_vars

\* A send was answered with 600: recorded as the last error, no timer armed.
C9_Witness ==
    /\ ev.posted /\ ev.status = 600
    /\ err = [code |-> "unexpected", status |-> 600]
    /\ timer # "armed"

\* C10: Component(name, guid) returns the component registered under that
\* exact pair, unchanged, when there is one, and a newly appended component
\* otherwise; no two components share a pair and none is ever removed.
C10_GetOrCreate ==
    /\ [](\A i, j \in 1..Len(components) :
            (components[i].Name = components[j].Name
                /\ components[i].GUID = components[j].GUID) => i = j)
    /\ [][/\ Len(components') >= Len(components)
          /\ \A i \in 1..Len(components) :
                /\ components'[i].Name = components[i].Name
                /\ components'[i].GUID = components[i].GUID
          /\ ev'.kind = "component" =>
                LET h == ev'.handle
                    known == {i \in 1..Len(components) :
                                 /\ components[i].Name = ev'.pair[1]
                                 /\ components[i].GUID = ev'.pair[2]}
                IN  /\ h \in 1..Len(components')
                    /\ components'[h].Name = ev'.pair[1]
                    /\ components'[h].GUID = ev'.pair[2]
                    /\ known # {} => (h \in known /\ components' = components)
                    /\ known = {} =>
                          /\ h = Len(components) + 1
                          /\ Len(components') = Len(components) + 1
                          /\ DOMAIN components'[h].Metrics = {}
                          /\ components'[h].start = 0]_vars

\* With three components registered, the pair of the first was asked for
\* again and the first handle returned.
C10_Witness ==
    /\ ev.kind = "component" /\ ev.handle = 1
    /\ Len(components) = 3
    /\ components[2].Name = components[1].Name
    /\ components[3].GUID = components[1].GUID


\* An error that is not nil and not errMustRetry.
Fatal(e) == e # nil /\ ~iserr(e, "errMustRetry")

\* C11: a send attempt of the runloop, made for a tick or for the retry timer,
\* that fails with a non-retryable error stores the error as the last error
\* and leaves the agent Active; and the tick processed next performs a send
\* attempt.
C11_FatalThenFreshSend ==
    [][/\ (ev'.sent /\ ev'.kind \in {"tick", "retry"} /\ Fatal(ev'.result))
            => (err' = ev'.result /\ state' = "Active")
       /\ (lastFatal /\ state = "Active" /\ tickC # 0 /\ tickC' = 0)
            => (ev'.sent /\ ev'.kind = "tick")]_vars

\* The part of C11 about a failure of an attempt made for a tick.
C11_AfterTickFailure ==
    [][/\ (ev'.sent /\ ev'.kind \in {"tick", "retry"} /\ Fatal(ev'.result))
            => (err' = ev'.result /\ state' = "Active")
       /\ (lastFatal /\ ~retryNeeded /\ state = "Active"
             /\ tickC # 0 /\ tickC' = 0)
            => (ev'.sent /\ ev'.kind = "tick")]_vars

\* C12: a tick processed while a retry is pending performs no send attempt
\* and changes no metric, error or retry state; a tick processed while no
\* retry is pending performs one send attempt, for that tick.
C12_TickAndPendingRetry ==
    [][(state = "Active" /\ tickC # 0 /\ tickC' = 0) =>
          IF retryNeeded
          THEN /\ ~ev'.sent
               /\ UNCHANGED <<components, err, retryNeeded, timer, retryC>>
          ELSE ev'.sent /\ ev'.kind = "tick" /\ ev'.from = tickC]_vars

\* A tick was skipped while the retry timer was running.
C12_Witness ==
    /\ ev.kind = "tick" /\ ~ev.sent
    /\ retryNeeded /\ timer = "armed"
    /\ \E i \in 1..Len(components) : DOMAIN components[i].Metrics # {}

\* C13: the final flush of shutdown leaves the last error, the retry timer
\* and the pending-retry state as they were when it fails with errMustRetry,
\* stores any other error as the last error, stores nothing when it
\* succeeds; in each case the runloop then exits.
C13_ShutdownFlush ==
    [][ev'.kind = "shutdown" =>
          /\ ev'.sent
          /\ state' = "Stopped"
          /\ UNCHANGED <<timer, retryC, retryNeeded>>
          /\ err' = IF Fatal(ev'.result) THEN ev'.result ELSE err]_vars

\* A final flush failed with errMustRetry after an earlier error was stored.
C13_Witness ==
    /\ ev.kind = "shutdown" /\ ev.posted
    /\ iserr(ev.result, "errMustRetry")
    /\ state = "Stopped"
    /\ Fatal(err)
    /\ timer = "nil"

\* C14: the metrics maps of the agent's components are read and written by
\* the runloop worker alone: no step of the worker writes a map that a
\* goroutine spawned for the metrics log is reading.
C14_SingleWriter ==
    [][\A i \in readers :
          \/ components'[i].Metrics = components[i].Metrics
          \/ i \notin readers']_vars

\* C15: Component with a name of more than 32 characters returns
\* ErrNameTooLong and no handle and leaves the component list and the rest of
\* the agent as they were; with a name of at most 32 characters it returns a
\* handle and no error.
C15_NameTooLong ==
    [][ev'.kind = "component" =>
          IF Len(ev'.pair[1]) > 32
          THEN /\ ev'.result = mkerr("ErrNameTooLong")
               /\ ev'.handle = 0
               /\ UNCHANGED <<state, components, err, retryNeeded, timer,
                              retryC, tickC, hist, readers, closing>>
          ELSE /\ ev'.result = nil
               /\ ev'.handle \in 1..Len(components')]_vars

\* A name of 33 characters was refused after one of 32 was registered.
C15_Witness ==
    /\ ev.kind = "component"
    /\ Len(ev.pair[1]) = 33
    /\ ev.result = mkerr("ErrNameTooLong")
    /\ Len(components) = 1
    /\ Len(components[1].Name) = 32

\* C16: NewWithRep returns a dormant agent with no components and no last
\* error when the API key, the version and the host are all non-empty, and
\* no agent otherwise; the error is ErrNoAPIKey for an empty key, else
\* ErrNoVersion for an empty version, else ErrNoHost.
C16_Construction ==
    LET ok == cfg.apiKey # "" /\ cfg.rep.Version # "" /\ cfg.rep.Host # ""
    IN  /\ (state # "NoAgent") <=> ok
        /\ ev.kind = "new" =>
              /\ ev.result = IF cfg.apiKey = "" THEN mkerr("ErrNoAPIKey")
                             ELSE IF cfg.rep.Version = ""
                             THEN mkerr("ErrNoVersion")
                             ELSE IF cfg.rep.Host = "" THEN mkerr("ErrNoHost")
                             ELSE nil
              /\ ok => /\ state = "Dormant"
                       /\ components = << >>
                       /\ err = nil

\* NewWithRep was called with a key and neither a version nor a host.
C16_Witness ==
    /\ ev.kind = "new"
    /\ cfg.apiKey # "" /\ cfg.rep.Version = "" /\ cfg.rep.Host = ""
    /\ ev.result = mkerr("ErrNoVersion")
    /\ state = "NoAgent"

\* C17: Close returns the error the agent holds prior to shutdown: the value
\* it returns is the agent's last error at the moment the worker starts to
\* run the shutdown operation.
C17_CloseReturnsLastError ==
    [][ev'.kind = "shutdown" => closing'.err = err]_vars

\* A send attempt of the runloop got a response from the endpoint.
Answered(e) == e.kind \in {"tick", "retry"} /\ e.posted /\ e.status # 0

\* C18, as stated: a send attempt of the runloop that gets a response has
\* the success outcome (metrics cleared, pending-retry flag cleared, no
\* error recorded) if and only if the status is 200.
C18_SuccessExactly200 ==
    [][Answered(ev') =>
          ((/\ ev'.result = nil
            /\ Cleared(components')
            /\ ~retryNeeded'
            /\ err' = err) <=> ev'.status = 200)]_vars

\* C18, amended: a send attempt of the runloop that gets a response has the
\* success outcome if and only if the status is in 200..299.
C18_SuccessAny2xx ==
    [][Answered(ev') =>
          ((/\ ev'.result = nil
            /\ Cleared(components')
            /\ ~retryNeeded'
            /\ err' = err) <=> ev'.status \in 200..299)]_vars

\* A retry answered 204 cleared the metrics and the pending-retry flag.
C18_Witness ==
    /\ ev.kind = "retry" /\ ev.posted
    /\ ev.status = 204
    /\ ev.result = nil
    /\ Cleared(components)
    /\ ~retryNeeded

\* C19: a send attempt made for the retry timer that fails with errMustRetry
\* restarts the one retry timer and leaves the pending-retry flag set,
\* however many times in a row; one that fails with another error stores it
\* as the last error and does not restart the timer.  The timer is never
\* running while a firing of it waits to be processed.
C19_RetryReschedule ==
    /\ [](~(timer = "armed" /\ retryC # 0))
    /\ [][(ev'.kind = "retry" /\ ev'.sent) =>
            /\ iserr(ev'.result, "errMustRetry") =>
                 (timer' = "armed" /\ retryNeeded' /\ retryC' = 0)
            /\ Fatal(ev'.result) =>
                 (err' = ev'.result /\ timer' = "idle" /\ retryC' = 0)]_vars

\* A retry failed with errMustRetry and the timer runs again.
C19_Witness ==
    /\ ev.kind = "retry" /\ ev.posted
    /\ iserr(ev.result, "errMustRetry")
    /\ timer = "armed"
    /\ retryNeeded
    /\ retryC = 0

\* C20: the shutdown operation makes one final send attempt and the runloop
\* is then Stopped; the runloop becomes Stopped in no other way; once
\* Stopped, the worker makes no send attempt and takes no tick, no firing of
\* the retry timer and no operation, whatever was pending; and once Close has
\* sent the shutdown operation the runloop is eventually Stopped.
C20_ShutdownStops ==
    /\ [][/\ ev'.kind = "shutdown" => (ev'.sent /\ state' = "Stopped")
          /\ (state # "Stopped" /\ state' = "Stopped")
                => (ev'.kind = "shutdown" /\ ev'.sent)
          /\ state = "Stopped" =>
                /\ ~ev'.sent
                /\ UNCHANGED <<state, components, err, retryNeeded, timer,
                               retryC, tickC, hist, closing>>]_vars
    /\ (closing.pc = "shutdown") ~> (state = "Stopped")

\* The runloop stopped with a retry pending, a firing of the retry timer
\* unprocessed and a tick ready.
C20_Witness ==
    /\ state = "Stopped"
    /\ ev.kind = "shutdown" /\ ev.sent
    /\ retryNeeded
    /\ retryC # 0
    /\ tickC # 0

\* The components that hold a metric.
Holding(comps) == {i \in 1..Len(comps) : DOMAIN comps[i].Metrics # {}}

\* A send attempt of the runloop succeeded.
SendSucceeded(e) ==
    e.sent /\ e.kind \in {"tick", "retry"} /\ e.result = nil

\* C21: a send is one step with respect to the operations: the metrics a
\* successful send removes are exactly those of the snapshot it sent, and no
\* other step removes a recording, so that a recording applied after a
\* snapshot was built is there for the next one.
C21_SendAtomic ==
    [][/\ SendSucceeded(ev') =>
            /\ Len(ev'.payload) = Cardinality(Holding(components))
            /\ \A i \in Holding(components) :
                  \E j \in 1..Len(ev'.payload) :
                      /\ ev'.payload[j].Name = components[i].Name
                      /\ ev'.payload[j].GUID = components[i].GUID
                      /\ ev'.payload[j].Metrics = components[i].Metrics
            /\ \A i \in 1..Len(components') :
                  DOMAIN components'[i].Metrics = {}
       /\ ~SendSucceeded(ev') =>
            \A i \in 1..Len(components) :
               \A k \in DOMAIN components[i].Metrics :
                  /\ k \in DOMAIN components'[i].Metrics
                  /\ CountOf(components'[i].Metrics[k])
                        >= CountOf(components[i].Metrics[k])]_vars

\* A tick sent the metrics of two components and both were cleared.
C21_Witness ==
    /\ ev.kind = "tick" /\ ev.posted /\ ev.result = nil
    /\ Len(ev.payload) = 2
    /\ Len(components) = 2
    /\ Cleared(components)

\* C22: a send attempt that finds no eligible component issues no request,
\* returns no error, records no last error and schedules no retry.
C22_NothingToSend ==
    [][(ev'.sent /\ Len(ev'.payload) = 0) =>
          /\ ~ev'.posted
          /\ ev'.result = nil
          /\ err' = err
          /\ timer' = timer
          /\ retryNeeded' => retryNeeded]_vars

\* A tick found a registered component with nothing to send, after an error
\* had been recorded.
C22_Witness ==
    /\ ev.kind = "tick" /\ ev.sent /\ ~ev.posted
    /\ Len(ev.payload) = 0
    /\ Len(components) > 0
    /\ Fatal(err)
    /\ timer = "nil"

\* json.Encoder.Encode's error for a MarshalJSON method that failed.
IsMarshalerError(e) == iserr(e, "json.MarshalerError")

\* C23: one send attempt builds the payload at most twice: compressed, and
\* once more uncompressed only when the first build fails with an error that
\* is not a json.MarshalerError; a json.MarshalerError ends the attempt with
\* ErrEncodingJSON and no request.  A request has Content-Encoding: gzip
\* exactly when its body was built compressed.  No failure to build the
\* payload gives the retryable outcome.
C23_PayloadBuilds ==
    [][(ev'.sent /\ Len(ev'.payload) > 0) =>
          /\ Len(ev'.tried) \in 1..2
          /\ Len(ev'.tried) = 2 <=>
                (ev'.tried[1] # nil /\ ~IsMarshalerError(ev'.tried[1]))
          /\ IsMarshalerError(ev'.tried[1]) =>
                (ev'.result = mkerr("ErrEncodingJSON") /\ ~ev'.posted)
          /\ ev'.posted <=> ev'.tried[Len(ev'.tried)] = nil
          /\ ev'.posted =>
                /\ ev'.gzip <=> ev'.zipped
                /\ ev'.zipped <=> Len(ev'.tried) = 1
          /\ ~ev'.posted =>
                /\ Fatal(ev'.result)
                /\ timer' = timer
                /\ retryNeeded' = retryNeeded]_vars

\* The compressed build failed in the gzip writer and the payload went out
\* uncompressed.
C23_Witness ==
    /\ ev.sent /\ ev.posted
    /\ Len(ev.tried) = 2
    /\ ev.tried[1] = mkerr("gzip")
    /\ ~ev.gzip
    /\ ev.result = nil

\* The errors the agent uses as signals inside the runloop.
InternalSignals == {"errMustRetry", "errShuttingDown", "errNoMetrics"}

\* C24: the agent's last error is never errMustRetry, errShuttingDown or
\* errNoMetrics, and neither is an error that Err or Close hands to a caller.
C24_SignalsStayInside ==
    /\ err.code \notin InternalSignals
    /\ closing.err.code \notin InternalSignals
    /\ ev.kind \in {"geterr", "close"} => ev.result.code \notin InternalSignals

\* The runloop stopped on a final flush that failed with errMustRetry while
\* a retry was pending, and no error is stored.
C24_Witness ==
    /\ state = "Stopped"
    /\ ev.kind = "shutdown" /\ iserr(ev.result, "errMustRetry")
    /\ retryNeeded
    /\ err = nil
    /\ closing.pc = "returned"

\* The place of a state in the agent's lifecycle.
Rank(s) ==
    CASE s = "Dormant" -> 0
      [] s = "Active" -> 1
      [] s = "Stopped" -> 2
      [] OTHER -> 3

C26_FlagIffRetryScheduled ==
    state = "Active" => (retryNeeded <=> (timer = "armed" \/ retryC # 0))

\* The half of C26 from the timer to the flag.
C26_TimerImpliesFlag ==
    state = "Active" => ((timer = "armed" \/ retryC # 0) => retryNeeded)

\* C28: the last error is only ever replaced by another error.  No step
\* takes it back to nil, and a step that changes it is a send attempt that
\* failed with a non-retryable error, which is the error stored; a
\* successful send, a nothing-to-send attempt, a retryable failure, a
\* skipped tick and the register, add, merge and read-error operations
\* leave it as it is, and Err reports it.
C28_ErrorOnlyReplaced ==
    [][ /\ err # nil => err' # nil
        /\ err' # err => /\ ev'.sent
                         /\ Fatal(ev'.result)
                         /\ err' = ev'.result
        /\ ev'.kind = "geterr" => ev'.result = err /\ err' = err ]_vars

\* A recorded error is still in place after a later tick's send succeeded.
C28_Witness ==
    /\ state = "Active"
    /\ Fatal(err)
    /\ ev.kind = "tick" /\ ev.posted /\ ev.result = nil

\* C27: the op queued by Component.MergeMetrics is self-contained.  What the
\* worker merges into the component is the argument map as it was when
\* MergeMetrics was called, whatever the caller does with the map after the
\* call returned, and the caller's later writes never run beside the
\* worker's reading of it.
C27_MergesArgumentAsCalled ==
    ev.kind = "mergemetrics" => ev.merged = ev.arg /\ ~ev.raced

\* The part of C27 about the values alone.
C27_MergedIsArgument ==
    ev.kind = "mergemetrics" => ev.merged = ev.arg

=========================================================================
